---------------------------- MODULE Spec2Model ----------------------------
(***************************************************************************)
(* A model of edison_platform.client.EdisonPlatformClient: a facade over   *)
(* the external EdisonClient (the "collaborator").  Texts are sequences of *)
(* one-character strings, so that strip(), slicing and joining are         *)
(* computed as Python computes them.  Python values are tagged records.    *)
(***************************************************************************)
EXTENDS Integers, Sequences, FiniteSets, TLC

(***************************************************************************)
(* Program constants.                                                      *)
(***************************************************************************)
\* query[:100] and len(query) > 100 in run_task.
PreviewLen == 100

(***************************************************************************)
(* Texts.                                                                  *)
(***************************************************************************)
\* The characters str.strip() removes (those the model's inputs use).
Whitespace == {" ", "\n", "\t"}

RECURSIVE LStrip(_)
LStrip(s) ==
    IF s # <<>> /\ Head(s) \in Whitespace THEN LStrip(Tail(s)) ELSE s

RECURSIVE RStrip(_)
RStrip(s) ==
    IF s # <<>> /\ s[Len(s)] \in Whitespace
    THEN RStrip(SubSeq(s, 1, Len(s) - 1))
    ELSE s

\* str.strip()
Strip(s) == RStrip(LStrip(s))

\* s[:n]
Take(s, n) == SubSeq(s, 1, IF Len(s) < n THEN Len(s) ELSE n)

\* sep.join(parts)
RECURSIVE Join(_, _)
Join(parts, sep) ==
    IF parts = <<>> THEN <<>>
    ELSE IF Len(parts) = 1 THEN parts[1]
    ELSE parts[1] \o sep \o Join(Tail(parts), sep)

\* needle in hay
Contains(hay, needle) ==
    \E i \in 1..(Len(hay) - Len(needle) + 1) :
        SubSeq(hay, i, i + Len(needle) - 1) = needle

\* hay.find(needle), 0 when absent (positions are 1-based here)
Find(hay, needle) ==
    IF Contains(hay, needle)
    THEN CHOOSE i \in 1..(Len(hay) - Len(needle) + 1) :
            /\ SubSeq(hay, i, i + Len(needle) - 1) = needle
            /\ \A j \in 1..(i - 1) : SubSeq(hay, j, j + Len(needle) - 1) # needle
    ELSE 0

NL == <<"\n">>
TxtDataset == <<"D", "a", "t", "a", "s", "e", "t", ":", " ">>
TxtParameters == <<"P", "a", "r", "a", "m", "e", "t", "e", "r", "s", ":">>
TxtDash == <<"-", " ">>
TxtColon == <<":", " ">>
TxtEllipsis == <<".", ".", ".">>
TxtNA == <<"N", "/", "A">>
TxtUnknown == <<"U", "n", "k", "n", "o", "w", "n">>
TxtNone == <<"N", "o", "n", "e">>

(***************************************************************************)
(* Python values: t is the type, s the text of a str / the digits of an    *)
(* int / the member name of a JobNames member, items the entries of a      *)
(* dict (pairs <<key, value>> of texts, in insertion order) or of a list   *)
(* (pairs <<(empty), value>>).                                             *)
(***************************************************************************)
StrV(s) == [t |-> "str", s |-> s, items |-> <<>>]
IntV(digits) == [t |-> "int", s |-> digits, items |-> <<>>]
NoneV == [t |-> "none", s |-> <<>>, items |-> <<>>]
DictV(items) == [t |-> "dict", s |-> <<>>, items |-> items]
ListV(items) == [t |-> "list", s |-> <<>>, items |-> items]
JobV(name) == [t |-> "job", s |-> name, items |-> <<>>]

\* edison_client.JobNames, as the facade uses it
LITERATURE == JobV(<<"L", "I", "T", "E", "R", "A", "T", "U", "R", "E">>)
ANALYSIS == JobV(<<"A", "N", "A", "L", "Y", "S", "I", "S">>)
PRECEDENT == JobV(<<"P", "R", "E", "C", "E", "D", "E", "N", "T">>)
MOLECULES == JobV(<<"M", "O", "L", "E", "C", "U", "L", "E", "S">>)

\* Python truthiness: bool(v), as `x or y`, `if x:` and `not x` use it
Truthy(v) ==
    CASE v.t = "none" -> FALSE
      [] v.t = "str" -> v.s # <<>>
      [] v.t = "int" -> v.s # <<"0">>
      [] v.t \in {"dict", "list"} -> v.items # <<>>
      [] OTHER -> TRUE

\* Code points of the characters the model's dict keys use (sort_keys=True).
CodePoint(c) ==
    CASE c = "a" -> 97 [] c = "b" -> 98 [] c = "c" -> 99 [] OTHER -> 0

\* Python's str < str
RECURSIVE TextLess(_, _)
TextLess(x, y) ==
    IF y = <<>> THEN FALSE
    ELSE IF x = <<>> THEN TRUE
    ELSE IF Head(x) = Head(y) THEN TextLess(Tail(x), Tail(y))
    ELSE CodePoint(Head(x)) < CodePoint(Head(y))

\* sorted(items) by key
RECURSIVE InsertItem(_, _)
InsertItem(it, sorted) ==
    IF sorted = <<>> THEN <<it>>
    ELSE IF TextLess(it[1], Head(sorted)[1]) THEN <<it>> \o sorted
    ELSE <<Head(sorted)>> \o InsertItem(it, Tail(sorted))

\* Faulty variant: json.dumps without sort_keys keeps insertion order
SortItems_InsertionOrder(items) == items

RECURSIVE SortItems(_)
SortItems(items) ==
    IF items = <<>> THEN <<>>
    ELSE InsertItem(Head(items), SortItems(Tail(items)))

\* JSON string escaping of a text, between its quotes
RECURSIVE JsonEscape(_)
JsonEscape(s) ==
    IF s = <<>> THEN <<>>
    ELSE (CASE Head(s) = "\n" -> <<"\\", "n">>
            [] Head(s) = "\t" -> <<"\\", "t">>
            [] Head(s) = "\"" -> <<"\\", "\"">>
            [] Head(s) = "\\" -> <<"\\", "\\">>
            [] OTHER -> <<Head(s)>>) \o JsonEscape(Tail(s))

JsonString(s) == <<"\"">> \o JsonEscape(s) \o <<"\"">>

\* The lines of a dict's / a list's entries at indent 2
JsonEntryLines(v, items) ==
    [i \in 1..Len(items) |->
        <<" ", " ">>
        \o (IF v.t = "dict" THEN JsonString(items[i][1]) \o <<":", " ">> ELSE <<>>)
        \o JsonString(items[i][2])]

\* json.dumps(value, indent=2, sort_keys=True) of a dict or list of texts
JsonDumps(v) ==
    LET open == IF v.t = "dict" THEN <<"{">> ELSE <<"[">>
        close == IF v.t = "dict" THEN <<"}">> ELSE <<"]">>
        items == IF v.t = "dict" THEN SortItems(v.items) ELSE v.items
    IN  IF items = <<>> THEN open \o close
        ELSE open \o NL \o Join(JsonEntryLines(v, items), <<",", "\n">>) \o NL \o close

\* str(value) of a None, a str, an int or a JobNames member
PyStr(v) ==
    CASE v.t = "none" -> TxtNone
      [] v.t \in {"str", "int", "job"} -> v.s

\* The value_str of one keyword parameter in analyze_data / chemistry_task
ValueStr(v) ==
    IF v.t \in {"dict", "list"} THEN JsonDumps(v) ELSE PyStr(v)

(***************************************************************************)
(* Exceptions, collaborator outcomes, requests.                            *)
(***************************************************************************)
\* isExc: the class derives from Exception (what `except Exception` catches)
Exc(cls, msg, isExc) == [cls |-> cls, msg |-> msg, isExc |-> isExc]
NoExc == Exc("", <<>>, FALSE)

ApiKeyRequired ==
    Exc("ValueError",
        <<"A", "P", "I", " ", "k", "e", "y", " ", "i", "s", " ", "r", "e", "q", "u", "i", "r", "e", "d", ".", " ", "P", "r", "o", "v", "i", "d", "e", " ", "i", "t", " ", "a", "s", " ", "a", "n", " ", "a", "r", "g", "u", "m", "e", "n", "t", " ", "o", "r", " ", "s", "e", "t", " ", "t", "h", "e", " ", "E", "D", "I", "S", "O", "N", "_", "A", "P", "I", "_", "K", "E", "Y", " ", "e", "n", "v", "i", "r", "o", "n", "m", "e", "n", "t", " ", "v", "a", "r", "i", "a", "b", "l", "e", ".">>,
        TRUE)

AnalysisNeedsQuery ==
    Exc("ValueError",
        <<"A", "n", "a", "l", "y", "s", "i", "s", " ", "r", "e", "q", "u", "e", "s", "t", "s", " ", "r", "e", "q", "u", "i", "r", "e", " ", "a", "t", " ", "l", "e", "a", "s", "t", " ", "a", " ", "d", "a", "t", "a", "s", "e", "t", " ", "o", "r", " ", "a", " ", "q", "u", "e", "r", "y", " ", "s", "t", "r", "i", "n", "g", ".">>,
        TRUE)

\* What Python raises for value[:100] on a value that cannot be sliced
NotSubscriptable(v) ==
    Exc("TypeError",
        (IF v.t = "none"
         THEN <<"'", "N", "o", "n", "e", "T", "y", "p", "e", "'">>
         ELSE <<"'", "i", "n", "t", "'">>)
        \o <<" ", "o", "b", "j", "e", "c", "t", " ", "i", "s", " ", "n", "o", "t", " ", "s", "u", "b", "s", "c", "r", "i", "p", "t", "a", "b", "l", "e">>,
        TRUE)

\* How a collaborator operation ends, and how a facade call ends
NoOutcome == [kind |-> "none", val |-> NoneV, exc |-> NoExc]
Ret(v) == [kind |-> "return", val |-> v, exc |-> NoExc]
Raise(e) == [kind |-> "raise", val |-> NoneV, exc |-> e]

\* A request (task_data) is a function from field names to values.
EmptyReq == [f \in {} |-> NoneV]
Req1(f, v) == [x \in {f} |-> v]
Req2(f, v, g, w) == [x \in {f, g} |-> IF x = f THEN v ELSE w]

\* dict.get(key, default)
Get(d, key, default) == IF key \in DOMAIN d THEN d[key] ELSE default

\* d.update(other), as a new mapping
Update(d, other) ==
    [x \in (DOMAIN d) \cup (DOMAIN other) |->
        IF x \in DOMAIN other THEN other[x] ELSE d[x]]

\* What one collaborator invocation is given: the operation and its argument
Payload(cop, req, id) == [cop |-> cop, req |-> req, id |-> id]

TxtQuery == <<"q", "u", "e", "r", "y">>
TxtTaskOverrides == <<"t", "a", "s", "k", "_", "o", "v", "e", "r", "r", "i", "d", "e", "s">>

\* One keyword argument: its name, its value and, for task_overrides given
\* a dict, the dict's fields (a request-like mapping).
Kw(key, val) == [key |-> key, val |-> val, ov |-> EmptyReq]
KwOverrides(ov) == [key |-> TxtTaskOverrides, val |-> DictV(<<>>), ov |-> ov]
KwOverridesNone == [key |-> TxtTaskOverrides, val |-> NoneV, ov |-> EmptyReq]

HasKey(kwargs, key) == \E i \in 1..Len(kwargs) : kwargs[i].key = key
Entry(kwargs, key) == kwargs[CHOOSE i \in 1..Len(kwargs) : kwargs[i].key = key]

\* What d.pop(key, None) leaves in d, and what it returns
PopRest(kwargs, key) == SelectSeq(kwargs, LAMBDA e : e.key # key)
PopValue(kwargs, key) == IF HasKey(kwargs, key) THEN Entry(kwargs, key).val ELSE NoneV

\* params_for_prompt.pop("task_overrides", None) or {}
TaskOverrides(kwargs) ==
    IF HasKey(kwargs, TxtTaskOverrides) /\ Entry(kwargs, TxtTaskOverrides).val.t # "none"
    THEN Entry(kwargs, TxtTaskOverrides).ov
    ELSE EmptyReq

VARIABLES
    env_key,    \* os.getenv("EDISON_API_KEY"): NoneV when unset
    tqdm,       \* TQDM_AVAILABLE
    facade,     \* the EdisonPlatformClient under construction / constructed
    ctorCalls,  \* the api_key of every EdisonClient(api_key=...) call
    envReads,   \* how often os.getenv was called
    fanout,     \* how many calls the caller keeps in flight at once
    handles,    \* the task ids create_task / acreate_task have returned
    calls       \* the calls in flight and those finished since the last began

vars == <<env_key, tqdm, facade, ctorCalls, envReads, fanout, handles, calls>>

NoFacade ==
    [state |-> "unbuilt", arg |-> NoneV, api_key |-> NoneV, client |-> 0,
     verbose |-> FALSE, show_progress |-> FALSE, basicConfig |-> FALSE,
     error |-> NoExc]

(***************************************************************************)
(* Construction.                                                           *)
(***************************************************************************)
\* What an api_key argument and EDISON_API_KEY may be: absent, empty, a key
ApiKeyArgs == {NoneV, StrV(<<>>), StrV(<<"k">>), StrV(<<"j">>)}
EnvKeys == {NoneV, StrV(<<>>), StrV(<<"e">>), StrV(<<"f">>)}

\* Faulty variant: the environment variable wins over the argument
ResolveKey_EnvFirst(arg, env) == IF Truthy(env) THEN env ELSE arg

\* api_key or os.getenv("EDISON_API_KEY")
ResolveKey(arg, env) == IF Truthy(arg) THEN arg ELSE env

\* Whether os.getenv is evaluated by `api_key or os.getenv(...)`
ReadsEnv(arg) == ~Truthy(arg)

\* if not self.api_key: raise ValueError(...)
KeyMissing(key) == ~Truthy(key)

\* Faulty variant: the EdisonClient is built before the key is checked
ClientsAfterInit_Eager(clients, key) == Append(clients, key)

\* The EdisonClient constructions once __init__ has run with this key
ClientsAfterInit(clients, key) ==
    IF KeyMissing(key) THEN clients ELSE Append(clients, key)

\* The facade __init__ leaves behind when it does not raise
Built(arg, key, client, verbose, show_progress) ==
    [state |-> "ready", arg |-> arg, api_key |-> key, client |-> client,
     verbose |-> verbose, show_progress |-> show_progress,
     basicConfig |-> verbose, error |-> NoExc]

\* EdisonPlatformClient.__init__(api_key, verbose, show_progress)
Construct(arg, verbose, show_progress) ==
    /\ facade.state = "unbuilt"
    /\ LET key == ResolveKey(arg, env_key) IN
       /\ envReads' = IF ReadsEnv(arg) THEN envReads + 1 ELSE envReads
       /\ ctorCalls' = ClientsAfterInit(ctorCalls, key)
       /\ facade' =
            IF KeyMissing(key)
            THEN [NoFacade EXCEPT !.state = "failed", !.arg = arg,
                                  !.api_key = key, !.error = ApiKeyRequired]
            ELSE Built(arg, key, Len(ctorCalls'), verbose, show_progress)
    /\ UNCHANGED <<env_key, tqdm, fanout, handles, calls>>

\* Before construction: any environment, no facade
InitUnbuilt ==
    /\ env_key \in EnvKeys
    /\ tqdm \in BOOLEAN
    /\ facade = NoFacade
    /\ ctorCalls = <<>>
    /\ envReads = 0
    /\ fanout = 1
    /\ handles = {}
    /\ calls = <<>>

\* After EdisonPlatformClient(api_key="k", verbose=..., show_progress=...)
Init ==
    /\ env_key = NoneV
    /\ tqdm \in BOOLEAN
    /\ \E verbose \in BOOLEAN, show_progress \in BOOLEAN :
          facade = Built(StrV(<<"k">>), StrV(<<"k">>), 1, verbose, show_progress)
    /\ ctorCalls = <<StrV(<<"k">>)>>
    /\ envReads = 0
    /\ fanout = 1
    /\ handles = {}
    /\ calls = <<>>

(***************************************************************************)
(* Console and logger output, as events of the call that makes them.       *)
(***************************************************************************)
Event(k, lvl, tmpl, args) == [k |-> k, lvl |-> lvl, tmpl |-> tmpl, args |-> args]

\* self._log_status(message, status): prints only when verbose
LogStatus(tmpl, args, status) ==
    IF ~facade.verbose THEN <<>> ELSE <<Event("status", status, tmpl, args)>>

\* self.logger.info(message) / self.logger.error(message)
LoggerCall(level, tmpl, args) == <<Event("logger", level, tmpl, args)>>

\* The collaborator being invoked / returning / raising, and tqdm's bar
Mark(k, what) == <<Event(k, "", what, <<>>)>>

\* if self.show_progress and TQDM_AVAILABLE
UsesTqdm == facade.show_progress /\ tqdm

\* What a method does up to its collaborator invocation: the events, the
\* payload handed to the collaborator (none when it raises before), the error
Entered(events, sent, exc) == [events |-> events, sent |-> sent, exc |-> exc]
After(events, entered) == [entered EXCEPT !.events = events \o @]

\* What a method does once the collaborator has returned or raised
Left(events, result) == [events |-> events, result |-> result]

(***************************************************************************)
(* run_task.                                                               *)
(***************************************************************************)
\* task_data.get('name', 'Unknown'), task_data.get('query', 'N/A')
JobName(task_data) == Get(task_data, "name", StrV(TxtUnknown))
QueryOf(task_data) == Get(task_data, "query", StrV(TxtNA))

\* f"{query[:100]}{'...' if len(query) > 100 else ''}"
Preview(query) ==
    Take(query.s, PreviewLen)
    \o (IF Len(query.s) > PreviewLen THEN TxtEllipsis ELSE <<>>)

\* The argument run_task hands to run_tasks_until_done
RunTaskSends(task_data) == task_data

\* run_task up to self.client.run_tasks_until_done(task_data)
RunTaskEnter(task_data) ==
    LET job_name == PyStr(JobName(task_data))
        query == QueryOf(task_data)
        starting == LogStatus("Starting {job_name} task...", <<job_name>>, "info")
    IN  IF query # StrV(TxtNA) /\ query.t # "str"
        THEN Entered(starting, <<>>, NotSubscriptable(query))
        ELSE Entered(
                starting
                \o (IF query # StrV(TxtNA)
                    THEN LogStatus("Query: {preview}", <<Preview(query)>>, "info")
                    ELSE <<>>)
                \o LoggerCall("info", "Running task: {job_name}", <<job_name>>)
                \o (IF UsesTqdm THEN Mark("tqdm", "open") ELSE <<>>)
                \o LogStatus("Task submitted, waiting for completion...", <<>>, "progress")
                \o Mark("collab_call", "run_tasks_until_done"),
                <<Payload("run_tasks_until_done", RunTaskSends(task_data), NoneV)>>,
                NoExc)

\* Faulty variant: the handler raises a wrapper instead of the caught exception
Reraised_Wrapped(e) == Exc("EdisonPlatformError", e.msg, TRUE)

\* The bare `raise` of an except block
Reraised(e) == e

\* Faulty variant: a quiet facade drops the response
Returned_QuietDropsValue(v) == IF facade.verbose THEN v ELSE NoneV

\* return response
Returned(v) == v

\* Faulty variant: the success status is printed in a finally clause, on
\* failure too
RunTaskLeave_SuccessInFinally(task_data, o) ==
    LET job_name == PyStr(JobName(task_data)) IN
    IF o.kind = "return"
    THEN Left(Mark("collab_ret", "run_tasks_until_done")
              \o LogStatus("{job_name} task completed successfully!", <<job_name>>, "success")
              \o LoggerCall("info", "Task completed successfully", <<>>),
              Ret(Returned(o.val)))
    ELSE Left(Mark("collab_raise", "run_tasks_until_done")
              \o LogStatus("Error running task: {e}", <<o.exc.msg>>, "error")
              \o LoggerCall("error", "Error running task: {e}", <<o.exc.msg>>)
              \o LogStatus("{job_name} task completed successfully!", <<job_name>>, "success"),
              Raise(Reraised(o.exc)))

\* run_task from the collaborator's return or raise on
RunTaskLeave(task_data, o) ==
    LET job_name == PyStr(JobName(task_data)) IN
    IF o.kind = "return"
    THEN Left(Mark("collab_ret", "run_tasks_until_done")
              \o (IF UsesTqdm
                  THEN Mark("tqdm", "update") \o Mark("tqdm", "set_description")
                       \o Mark("tqdm", "close")
                  ELSE <<>>)
              \o LogStatus("{job_name} task completed successfully!", <<job_name>>, "success")
              \o LoggerCall("info", "Task completed successfully", <<>>),
              Ret(Returned(o.val)))
    ELSE Left(Mark("collab_raise", "run_tasks_until_done")
              \o (IF UsesTqdm THEN Mark("tqdm", "close") ELSE <<>>)
              \o (IF o.exc.isExc
                  THEN LogStatus("Error running task: {e}", <<o.exc.msg>>, "error")
                       \o LoggerCall("error", "Error running task: {e}", <<o.exc.msg>>)
                  ELSE <<>>),
              Raise(IF o.exc.isExc THEN Reraised(o.exc) ELSE o.exc))

(***************************************************************************)
(* arun_task, create_task, acreate_task, get_task, aget_task.              *)
(***************************************************************************)
SyncOps == {"run_task", "create_task", "get_task", "literature_search",
            "precedent_search", "analyze_data", "chemistry_task"}
AsyncOps == {"arun_task", "acreate_task", "aget_task"}
ByIdOps == {"get_task", "aget_task"}

\* Faulty variant: create_task submits and waits instead of creating
CollabOp_CreateWaits(op) ==
    CASE op = "arun_task" -> "arun_tasks_until_done"
      [] op \in {"acreate_task", "get_task", "aget_task"} -> op
      [] OTHER -> "run_tasks_until_done"

\* The collaborator operation each of these methods calls
CollabOp(op) ==
    CASE op = "arun_task" -> "arun_tasks_until_done"
      [] op \in {"create_task", "acreate_task", "get_task", "aget_task"} -> op
      [] OTHER -> "run_tasks_until_done"

\* The logger.info before the call, the one after it, the logger.error
InfoBefore(op) ==
    CASE op = "arun_task" -> "Running async task: {name}"
      [] op = "create_task" -> "Creating task: {name}"
      [] op = "acreate_task" -> "Creating async task: {name}"
      [] op = "get_task" -> "Retrieving task: {task_id}"
      [] op = "aget_task" -> "Retrieving async task: {task_id}"

InfoAfter(op) ==
    CASE op = "arun_task" -> "Async task completed successfully"
      [] op = "create_task" -> "Task created with ID: {task_id}"
      [] op = "acreate_task" -> "Async task created with ID: {task_id}"
      [] op = "get_task" -> "Task retrieved: {task_id}"
      [] op = "aget_task" -> "Async task retrieved: {task_id}"

ErrorText(op) ==
    CASE op = "arun_task" -> "Error running async task: {e}"
      [] op = "create_task" -> "Error creating task: {e}"
      [] op = "acreate_task" -> "Error creating async task: {e}"
      [] op = "get_task" -> "Error retrieving task {task_id}: {e}"
      [] op = "aget_task" -> "Error retrieving async task {task_id}: {e}"

\* The argument the method hands to the collaborator: task_data or task_id
DelegateSends(op, task_data, task_id) ==
    IF op \in ByIdOps
    THEN Payload(CollabOp(op), EmptyReq, task_id)
    ELSE Payload(CollabOp(op), task_data, NoneV)

\* Faulty variant: get_task / aget_task refuse an id create_task never returned
DelegateEnter_KnownIdsOnly(op, task_data, task_id) ==
    IF op \in ByIdOps /\ task_id \notin handles
    THEN Entered(<<>>, <<>>, Exc("KeyError", task_id.s, TRUE))
    ELSE Entered(LoggerCall("info", InfoBefore(op),
                            IF op \in ByIdOps THEN <<PyStr(task_id)>>
                            ELSE <<PyStr(JobName(task_data))>>)
                 \o Mark("collab_call", CollabOp(op)),
                 <<DelegateSends(op, task_data, task_id)>>,
                 NoExc)

\* One of the five methods up to its collaborator call
DelegateEnter(op, task_data, task_id) ==
    Entered(LoggerCall("info", InfoBefore(op),
                       IF op \in ByIdOps THEN <<PyStr(task_id)>>
                       ELSE <<PyStr(JobName(task_data))>>)
            \o Mark("collab_call", CollabOp(op)),
            <<DelegateSends(op, task_data, task_id)>>,
            NoExc)

\* Faulty variant: a cancellation is swallowed and the method returns None
DelegateLeave_SwallowsCancel(op, task_id, o) ==
    IF o.kind = "raise" /\ ~o.exc.isExc
    THEN Left(Mark("collab_raise", CollabOp(op)), Ret(NoneV))
    ELSE IF o.kind = "return"
    THEN Left(Mark("collab_ret", CollabOp(op))
              \o LoggerCall("info", InfoAfter(op),
                            CASE op = "arun_task" -> <<>>
                              [] op \in ByIdOps -> <<PyStr(task_id)>>
                              [] OTHER -> <<PyStr(o.val)>>),
              Ret(Returned(o.val)))
    ELSE Left(Mark("collab_raise", CollabOp(op))
              \o LoggerCall("error", ErrorText(op),
                            IF op \in ByIdOps
                            THEN <<PyStr(task_id), o.exc.msg>>
                            ELSE <<o.exc.msg>>),
              Raise(Reraised(o.exc)))

\* One of the five methods from the collaborator's return or raise on
DelegateLeave(op, task_id, o) ==
    IF o.kind = "return"
    THEN Left(Mark("collab_ret", CollabOp(op))
              \o LoggerCall("info", InfoAfter(op),
                            CASE op = "arun_task" -> <<>>
                              [] op \in ByIdOps -> <<PyStr(task_id)>>
                              [] OTHER -> <<PyStr(o.val)>>),
              Ret(Returned(o.val)))
    ELSE Left(Mark("collab_raise", CollabOp(op))
              \o (IF o.exc.isExc
                  THEN LoggerCall("error", ErrorText(op),
                                  IF op \in ByIdOps
                                  THEN <<PyStr(task_id), o.exc.msg>>
                                  ELSE <<o.exc.msg>>)
                  ELSE <<>>),
              Raise(IF o.exc.isExc THEN Reraised(o.exc) ELSE o.exc))

(***************************************************************************)
(* The convenience methods.                                                *)
(***************************************************************************)
\* The status lines a convenience method prints first, when verbose
Banner(title, tmpl, args) ==
    IF facade.verbose
    THEN LogStatus("=" , <<>>, "info") \o LogStatus(title, <<>>, "info")
         \o LogStatus("=", <<>>, "info") \o LogStatus(tmpl, args, "info")
    ELSE <<>>

\* task_data = {"name": ..., "query": ...}
TaskData(name, query) == Req2("name", name, "query", query)

\* Faulty variant: the defaults win: overrides only add fields
MergeOverrides_DefaultsWin(task_data, task_overrides) ==
    Update(task_overrides, task_data)

\* if task_overrides: task_data.update(task_overrides)
MergeOverrides(task_data, task_overrides) ==
    IF DOMAIN task_overrides # {} THEN Update(task_data, task_overrides)
    ELSE task_data

\* Faulty variant: the query is trimmed before it is sent
LiteratureEnter_Trims(query) ==
    After(Banner("LITERATURE SEARCH", "Researching: {query}", <<PyStr(query)>>),
          RunTaskEnter(TaskData(LITERATURE, StrV(Strip(query.s)))))

\* literature_search(query)
LiteratureEnter(query) ==
    After(Banner("LITERATURE SEARCH", "Researching: {query}", <<PyStr(query)>>)
          \o (IF facade.verbose
              THEN LogStatus("This may take several minutes as Kosmos reads papers and analyzes data...",
                             <<>>, "progress")
              ELSE <<>>),
          RunTaskEnter(TaskData(LITERATURE, query)))

\* Faulty variant: the request carries the job name of literature_search
PrecedentEnter_WrongJob(query) ==
    After(Banner("PRECEDENT SEARCH", "Searching for: {query}", <<PyStr(query)>>),
          RunTaskEnter(TaskData(LITERATURE, query)))

\* precedent_search(query)
PrecedentEnter(query) ==
    After(Banner("PRECEDENT SEARCH", "Searching for: {query}", <<PyStr(query)>>),
          RunTaskEnter(TaskData(PRECEDENT, query)))

\* f"- {key}: {value_str}" for every parameter, in the caller's order
ParamLines(params) ==
    [i \in 1..Len(params) |->
        TxtDash \o params[i].key \o TxtColon \o ValueStr(params[i].val)]

\* The parts list of analyze_data
AnalyzeParts(dataset, params) ==
    (IF Truthy(dataset) THEN <<TxtDataset \o PyStr(dataset)>> ELSE <<>>)
    \o (IF params # <<>> THEN <<TxtParameters>> \o ParamLines(params) ELSE <<>>)

\* Faulty variant: the joined parts are not stripped
AnalyzeQuery_NoStrip(dataset, custom_query, params) ==
    IF Truthy(custom_query) THEN custom_query
    ELSE StrV(Join(AnalyzeParts(dataset, params), NL))

\* Faulty variant: the custom query is stripped like the synthesized one
AnalyzeQuery_StripsCustom(dataset, custom_query, params) ==
    IF Truthy(custom_query) THEN StrV(Strip(custom_query.s))
    ELSE StrV(Strip(Join(AnalyzeParts(dataset, params), NL)))

\* The query of analyze_data: the custom one, or "\n".join(parts).strip()
AnalyzeQuery(dataset, custom_query, params) ==
    IF Truthy(custom_query) THEN custom_query
    ELSE StrV(Strip(Join(AnalyzeParts(dataset, params), NL)))

\* The keyword arguments left for the prompt
PromptParams(kwargs) == PopRest(PopRest(kwargs, TxtQuery), TxtTaskOverrides)

\* Faulty variant: only a None query is refused
QueryMissing_NoneOnly(query) == query.t = "none"

\* if not query: raise ValueError(...)
QueryMissing(query) == ~Truthy(query)

\* Faulty variant: the empty-query check is applied to the merged request
AnalyzeEnter_ChecksAfterMerge(dataset, kwargs) ==
    LET params == PromptParams(kwargs)
        query == AnalyzeQuery(dataset, PopValue(kwargs, TxtQuery), params)
        merged == MergeOverrides(TaskData(ANALYSIS, query), TaskOverrides(kwargs))
        banner ==
            Banner("DATA ANALYSIS", "Analyzing dataset: {dataset}", <<PyStr(dataset)>>)
            \o (IF facade.verbose /\ params # <<>>
                THEN LogStatus("Parameters: {params_for_prompt}", <<>>, "info")
                ELSE <<>>)
    IN  IF QueryMissing(merged["query"])
        THEN Entered(banner, <<>>, AnalysisNeedsQuery)
        ELSE After(banner, RunTaskEnter(merged))

\* analyze_data(dataset, **kwargs)
AnalyzeEnter(dataset, kwargs) ==
    LET params == PromptParams(kwargs)
        query == AnalyzeQuery(dataset, PopValue(kwargs, TxtQuery), params)
        banner ==
            Banner("DATA ANALYSIS", "Analyzing dataset: {dataset}", <<PyStr(dataset)>>)
            \o (IF facade.verbose /\ params # <<>>
                THEN LogStatus("Parameters: {params_for_prompt}", <<>>, "info")
                ELSE <<>>)
    IN  IF QueryMissing(query)
        THEN Entered(banner, <<>>, AnalysisNeedsQuery)
        ELSE After(banner,
                   RunTaskEnter(MergeOverrides(TaskData(ANALYSIS, query),
                                               TaskOverrides(kwargs))))

\* Faulty variant: the query is not trimmed and one newline separates the block
ChemistryPrompt_Untrimmed(query, params) ==
    IF params # <<>>
    THEN query.s \o NL \o Join(<<TxtParameters>> \o ParamLines(params), NL)
    ELSE query.s

\* The prompt of chemistry_task
ChemistryPrompt(query, params) ==
    IF params # <<>>
    THEN Strip(query.s) \o NL \o NL \o Join(<<TxtParameters>> \o ParamLines(params), NL)
    ELSE Strip(query.s)

\* chemistry_task(query, **kwargs)
ChemistryEnter(query, kwargs) ==
    LET params == PopRest(kwargs, TxtTaskOverrides)
        banner ==
            Banner("CHEMISTRY TASK", "Task: {query}", <<PyStr(query)>>)
            \o (IF facade.verbose /\ params # <<>>
                THEN LogStatus("Parameters: {params_for_prompt}", <<>>, "info")
                ELSE <<>>)
    IN  After(banner,
              RunTaskEnter(MergeOverrides(TaskData(MOLECULES, StrV(ChemistryPrompt(query, params))),
                                          TaskOverrides(kwargs))))

(***************************************************************************)
(* Inputs: the arguments callers pass and the ways the collaborator ends.  *)
(***************************************************************************)
\* A query one character longer than the preview
LongText == [i \in 1..(PreviewLen + 1) |-> "x"]

Requests ==
    { TaskData(LITERATURE, StrV(<<"q">>)),
      Req1("name", ANALYSIS),
      Req1("query", StrV(TxtNA)),
      TaskData(PRECEDENT, StrV(LongText)),
      TaskData(ANALYSIS, IntV(<<"5">>)),
      TaskData(MOLECULES, NoneV) }

\* What the collaborator returns: results and task ids alike are opaque
Returns == {StrV(<<"t", "1">>), StrV(<<"t", "2">>)}
TaskIds == Returns

\* What the collaborator raises
Errors ==
    { Exc("RuntimeError", <<"b", "o", "o", "m">>, TRUE),
      Exc("TimeoutError", <<>>, TRUE) }

\* asyncio.CancelledError derives from BaseException, not from Exception
Cancelled == Exc("CancelledError", <<>>, FALSE)

SearchQueries ==
    { StrV(<<"q">>), StrV(<<>>), StrV(<<" ", "q", " ">>), StrV(TxtNA),
      StrV(LongText) }

ChemistryQueries == {StrV(<<"q">>), StrV(<<" ", "q", "\n">>), StrV(<<>>)}

Datasets == {NoneV, StrV(<<>>), StrV(<<"D">>), StrV(<<"D", " ">>)}

KV == Kw(<<"k">>, StrV(<<"v">>))
TxtTarget == <<"t", "a", "r", "g", "e", "t">>
KTarget == Kw(TxtTarget, StrV(<<"x">>))
KA == Kw(<<"a">>, IntV(<<"5">>))
KwQuery(text) == Kw(TxtQuery, StrV(text))
Metadata == DictV(<< << <<"a">>, <<"b">> >> >>)

\* Keyword arguments without task_overrides
PlainKwargs ==
    { <<>>,
      <<KV>>,
      <<KV, KA>>,
      <<KA, KV>>,
      <<Kw(<<"k">>, StrV(<<>>))>>,
      <<Kw(<<"k">>, StrV(<<"v", "\n">>))>>,
      <<Kw(<<"k">>, NoneV)>>,
      <<Kw(<<"k">>, DictV(<< << <<"b">>, <<"x">> >>, << <<"a">>, <<"y">> >> >>))>>,
      <<Kw(<<"k">>, DictV(<< << <<"a">>, <<"y">> >>, << <<"b">>, <<"x">> >> >>))>>,
      <<Kw(<<"k">>, ListV(<< << <<>>, <<"b">> >>, << <<>>, <<"a">> >> >>))>> }

\* Keyword arguments with task_overrides
OverrideKwargs ==
    { <<KwOverridesNone>>,
      <<KwOverrides(EmptyReq)>>,
      <<KwOverrides(Req1("metadata", Metadata))>>,
      <<KwOverrides(Req1("query", StrV(<<"o">>)))>>,
      <<KV, KwOverridesNone>>,
      <<KV, KwOverrides(EmptyReq)>>,
      <<KV, KwOverrides(Req1("metadata", Metadata))>>,
      <<KwOverrides(Req1("metadata", Metadata)), KV>>,
      <<KV, KwOverrides(Req1("query", StrV(<<"o">>)))>>,
      <<KV, KwOverrides(Req1("query", StrV(<<>>)))>>,
      <<KV, KwOverrides(Req1("query", IntV(<<"5">>)))>>,
      <<KV, KwOverrides(Req1("query", NoneV))>>,
      <<KV, KwOverrides(Req1("name", MOLECULES))>>,
      <<KV, KwOverrides(Req1("name", StrV(<<"X">>)))>> }

\* Keyword arguments with query, which only analyze_data takes
QueryKwargs ==
    { <<KwQuery(<<"c">>)>>,
      <<KwQuery(<<>>)>>,
      <<KwQuery(<<"c", " ">>)>>,
      <<Kw(TxtQuery, NoneV)>>,
      <<KV, KwQuery(<<"c">>)>>,
      <<KwQuery(<<"c">>), KV>>,
      <<KwQuery(<<"c">>), KwOverrides(Req1("metadata", Metadata))>>,
      <<KwQuery(<<"c">>), KwOverrides(Req1("query", StrV(<<"o">>)))>> }

AnalyzeKwargs == PlainKwargs \cup OverrideKwargs \cup QueryKwargs
ChemistryKwargs == PlainKwargs \cup OverrideKwargs \cup {<<KTarget>>}

(***************************************************************************)
(* Calls.  A call is in the collaborator (pc "in_collab") from the moment  *)
(* the facade invokes it until it returns or raises; a synchronous call    *)
(* blocks the caller's thread meanwhile.                                   *)
(***************************************************************************)
NoInput ==
    [req |-> EmptyReq, id |-> NoneV, q |-> NoneV, dataset |-> NoneV, kwargs |-> <<>>]
InReq(r) == [NoInput EXCEPT !.req = r]
InId(h) == [NoInput EXCEPT !.id = h]
InQuery(q, kwargs) == [NoInput EXCEPT !.q = q, !.kwargs = kwargs]
InAnalyze(dataset, kwargs) == [NoInput EXCEPT !.dataset = dataset, !.kwargs = kwargs]


\* What a call leaves in the mappings its caller owns: the request passed to
\* run_task / create_task (and the async variants), the keyword arguments and
\* the task_overrides mapping passed to analyze_data / chemistry_task.
NotOwned == [req |-> EmptyReq, kwargs |-> <<>>, overrides |-> EmptyReq]

\* run_task and the delegating methods read task_data with .get and hand it
\* over; no statement of theirs assigns into it.
RequestOwned(task_data) == [NotOwned EXCEPT !.req = task_data]

\* Faulty variant: the pops are applied to the caller's keyword mapping
AnalyzeOwned_PopsCallerKwargs(dataset, kwargs) ==
    [NotOwned EXCEPT !.kwargs = PopRest(PopRest(kwargs, TxtQuery), TxtTaskOverrides),
                     !.overrides = TaskOverrides(kwargs)]

\* analyze_data: params_for_prompt = dict(kwargs) is a new mapping and both
\* pops are applied to it; task_data.update(task_overrides) writes task_data.
AnalyzeOwned(dataset, kwargs) ==
    [NotOwned EXCEPT !.kwargs = kwargs, !.overrides = TaskOverrides(kwargs)]

\* chemistry_task: the same copy, one pop, the same update of task_data.
ChemistryOwned(query, kwargs) ==
    [NotOwned EXCEPT !.kwargs = kwargs, !.overrides = TaskOverrides(kwargs)]

CallerOwned(op, input) ==
    CASE op \in {"run_task", "arun_task", "create_task", "acreate_task"} ->
            RequestOwned(input.req)
      [] op = "analyze_data" -> AnalyzeOwned(input.dataset, input.kwargs)
      [] op = "chemistry_task" -> ChemistryOwned(input.q, input.kwargs)
      [] OTHER -> NotOwned

\* Faulty variant: the method hands the request over and returns at once
NewCall_FireAndForget(op, input, entered) ==
    [op |-> op, input |-> input,
     pc |-> IF entered.sent = <<>> THEN "raised" ELSE "returned",
     sent |-> entered.sent, events |-> entered.events,
     outcome |-> NoOutcome,
     result |-> IF entered.sent = <<>> THEN Raise(entered.exc) ELSE Ret(NoneV),
     owned |-> CallerOwned(op, input)]

NewCall(op, input, entered) ==
    [op |-> op, input |-> input,
     pc |-> IF entered.sent = <<>> THEN "raised" ELSE "in_collab",
     sent |-> entered.sent, events |-> entered.events,
     outcome |-> NoOutcome,
     result |-> IF entered.sent = <<>> THEN Raise(entered.exc) ELSE NoOutcome,
     owned |-> CallerOwned(op, input)]

InFlight(cs) == SelectSeq(cs, LAMBDA c : c.pc = "in_collab")

\* A synchronous call is waiting for the collaborator: the thread is blocked
SyncBlocked == \E i \in 1..Len(calls) : calls[i].pc = "in_collab" /\ calls[i].op \in SyncOps

\* Faulty variant: entering a method turns the facade verbose
Begin_TurnsVerbose(op, input, entered) ==
    /\ facade.state = "ready"
    /\ ~SyncBlocked
    /\ InFlight(calls) = calls
    /\ Len(calls) < fanout
    /\ calls' = Append(calls, NewCall(op, input, entered))
    /\ facade' = [facade EXCEPT !.verbose = TRUE]
    /\ UNCHANGED <<env_key, tqdm, ctorCalls, envReads, fanout, handles>>

\* The caller calls a method, having dropped the records of finished calls
Begin(op, input, entered) ==
    /\ facade.state = "ready"
    /\ ~SyncBlocked
    /\ InFlight(calls) = calls
    /\ Len(calls) < fanout
    /\ calls' = Append(calls, NewCall(op, input, entered))
    /\ UNCHANGED <<env_key, tqdm, facade, ctorCalls, envReads, fanout, handles>>

\* The caller drops what finished calls returned or raised
Discard ==
    /\ InFlight(calls) # calls
    /\ calls' = InFlight(calls)
    /\ UNCHANGED <<env_key, tqdm, facade, ctorCalls, envReads, fanout, handles>>

RunTask(r) == Begin("run_task", InReq(r), RunTaskEnter(r))
ARunTask(r) == Begin("arun_task", InReq(r), DelegateEnter("arun_task", r, NoneV))
CreateTask(r) == Begin("create_task", InReq(r), DelegateEnter("create_task", r, NoneV))
ACreateTask(r) == Begin("acreate_task", InReq(r), DelegateEnter("acreate_task", r, NoneV))
GetTask(h) == Begin("get_task", InId(h), DelegateEnter("get_task", EmptyReq, h))
AGetTask(h) == Begin("aget_task", InId(h), DelegateEnter("aget_task", EmptyReq, h))
LiteratureSearch(q) == Begin("literature_search", InQuery(q, <<>>), LiteratureEnter(q))
PrecedentSearch(q) == Begin("precedent_search", InQuery(q, <<>>), PrecedentEnter(q))
AnalyzeData(dataset, kwargs) ==
    Begin("analyze_data", InAnalyze(dataset, kwargs), AnalyzeEnter(dataset, kwargs))
ChemistryTask(q, kwargs) ==
    Begin("chemistry_task", InQuery(q, kwargs), ChemistryEnter(q, kwargs))

\* The rest of a call once its collaborator operation has ended with o
Leave(call, o) ==
    IF call.op \in AsyncOps \cup {"create_task", "get_task"}
    THEN DelegateLeave(call.op, call.input.id, o)
    ELSE RunTaskLeave(call.sent[1].req, o)

\* Faulty variant: one error slot shared by the calls, so that a call ending
\* after another has failed reports that failure
Finish_SharedLastError(call, o) ==
    LET left == Leave(call, o)
        failed == SelectSeq(calls, LAMBDA c : c.pc = "raised")
    IN  IF failed # <<>>
        THEN [call EXCEPT !.pc = "raised", !.events = @ \o left.events,
                          !.outcome = o, !.result = failed[1].result]
        ELSE [call EXCEPT !.pc = IF left.result.kind = "return" THEN "returned" ELSE "raised",
                          !.events = @ \o left.events,
                          !.outcome = o,
                          !.result = left.result]

Finish(call, o) ==
    LET left == Leave(call, o) IN
    [call EXCEPT !.pc = IF left.result.kind = "return" THEN "returned" ELSE "raised",
                 !.events = @ \o left.events,
                 !.outcome = o,
                 !.result = left.result]

\* The task id the caller holds once create_task / acreate_task has returned
Created(call) ==
    IF call.op \in {"create_task", "acreate_task"} /\ call.result.kind = "return"
    THEN {call.result.val}
    ELSE {}

\* The collaborator operation of call i ends; the call resumes and finishes
Resume(i, o) ==
    /\ i \in 1..Len(calls)
    /\ calls[i].pc = "in_collab"
    /\ calls[i].op \in AsyncOps => ~SyncBlocked
    /\ calls' = [calls EXCEPT ![i] = Finish(@, o)]
    /\ handles' = handles \cup Created(calls'[i])
    /\ UNCHANGED <<env_key, tqdm, facade, ctorCalls, envReads, fanout>>

CollabReturns(i, v) == Resume(i, Ret(v))
CollabRaises(i, e) == Resume(i, Raise(e))

\* The caller cancels a suspended asynchronous call
Cancel(i) ==
    /\ i \in 1..Len(calls)
    /\ calls[i].op \in AsyncOps
    /\ Resume(i, Raise(Cancelled))

Next ==
    \/ \E r \in Requests : RunTask(r)
    \/ \E r \in Requests : ARunTask(r)
    \/ \E r \in Requests : CreateTask(r)
    \/ \E r \in Requests : ACreateTask(r)
    \/ \E h \in TaskIds : GetTask(h)
    \/ \E h \in TaskIds : AGetTask(h)
    \/ \E q \in SearchQueries : LiteratureSearch(q)
    \/ \E q \in SearchQueries : PrecedentSearch(q)
    \/ \E d \in Datasets, kw \in AnalyzeKwargs : AnalyzeData(d, kw)
    \/ \E q \in ChemistryQueries, kw \in ChemistryKwargs : ChemistryTask(q, kw)
    \/ \E i \in 1..Len(calls), v \in Returns : CollabReturns(i, v)
    \/ \E i \in 1..Len(calls), e \in Errors : CollabRaises(i, e)
    \/ \E i \in 1..Len(calls) : Cancel(i)
    \/ Discard

\* The facade at work: constructed, then called
Spec == Init /\ [][Next]_vars

\* The collaborator operation of some call in flight ends
CollabEnds ==
    \/ \E i \in 1..Len(calls), v \in Returns : CollabReturns(i, v)
    \/ \E i \in 1..Len(calls), e \in Errors : CollabRaises(i, e)

\* The facade at work with a collaborator whose operations all terminate
SpecLive == Init /\ [][Next]_vars /\ WF_vars(CollabEnds)

NextInit ==
    \E arg \in ApiKeyArgs, verbose \in BOOLEAN, show_progress \in BOOLEAN :
        Construct(arg, verbose, show_progress)

\* The construction of the facade
SpecInit == InitUnbuilt /\ [][NextInit]_vars

(***************************************************************************)
(* Several calls in flight at once: the caller fans asynchronous calls out *)
(* (asyncio.gather) and the collaborator completes them in any order.      *)
(***************************************************************************)
\* How many calls the caller keeps in flight at once
MaxFanout == 2

\* The requests of the fanned-out calls: one with a text query, one without
AsyncRequests == {TaskData(LITERATURE, StrV(<<"q">>)), TaskData(ANALYSIS, IntV(<<"5">>))}

\* After EdisonPlatformClient(api_key="k", verbose=..., show_progress=False)
InitAsync ==
    /\ env_key = NoneV
    /\ tqdm = FALSE
    /\ \E verbose \in BOOLEAN :
          facade = Built(StrV(<<"k">>), StrV(<<"k">>), 1, verbose, FALSE)
    /\ ctorCalls = <<StrV(<<"k">>)>>
    /\ envReads = 0
    /\ fanout = MaxFanout
    /\ handles = {}
    /\ calls = <<>>

NextAsync ==
    \/ \E r \in AsyncRequests : ARunTask(r)
    \/ \E r \in AsyncRequests : ACreateTask(r)
    \/ \E h \in TaskIds : AGetTask(h)
    \/ \E r \in AsyncRequests : RunTask(r)
    \/ \E r \in AsyncRequests : CreateTask(r)
    \/ \E h \in TaskIds : GetTask(h)
    \/ \E i \in 1..Len(calls), v \in Returns : CollabReturns(i, v)
    \/ \E i \in 1..Len(calls), e \in Errors : CollabRaises(i, e)
    \/ \E i \in 1..Len(calls) : Cancel(i)
    \/ Discard

\* The facade under concurrent asynchronous calls
SpecAsync == InitAsync /\ [][NextAsync]_vars
(***************************************************************************)
(* job_types.py: the JobTypes enumeration and its descriptions.            *)
(***************************************************************************)
\* A member of JobTypes; it equals no string and no member of JobNames
JobTypeV(name) == [t |-> "jobtype", s |-> name, items |-> <<>>]
JobTypes ==
    { JobTypeV(<<"LITERATURE">>), JobTypeV(<<"ANALYSIS">>),
      JobTypeV(<<"PRECEDENT">>), JobTypeV(<<"MOLECULES">>) }

\* The dict `descriptions` of get_description
DescLiterature ==
    <<"S", "e", "a", "r", "c", "h", " ", "a", "n", "d", " ", "g", "e", "n",
      "e", "r", "a", "t", "e", " ", "a", "n", "s", "w", "e", "r", "s", " ",
      "b", "a", "s", "e", "d", " ", "o", "n", " ", "s", "c", "i", "e", "n",
      "t", "i", "f", "i", "c", " ", "l", "i", "t", "e", "r", "a", "t", "u",
      "r", "e">>
DescAnalysis ==
    <<"A", "n", "a", "l", "y", "z", "e", " ", "b", "i", "o", "l", "o", "g",
      "i", "c", "a", "l", " ", "d", "a", "t", "a", "s", "e", "t", "s">>
DescPrecedent ==
    <<"Q", "u", "e", "r", "y", " ", "p", "r", "i", "o", "r", " ", "s", "c",
      "i", "e", "n", "t", "i", "f", "i", "c", " ", "w", "o", "r", "k">>
DescMolecules ==
    <<"C", "h", "e", "m", "i", "s", "t", "r", "y", " ", "t", "a", "s", "k",
      "s", ",", " ", "l", "e", "v", "e", "r", "a", "g", "i", "n", "g", " ",
      "c", "h", "e", "m", "i", "n", "f", "o", "r", "m", "a", "t", "i", "c",
      "s", " ", "t", "o", "o", "l", "s">>
TxtUnknownJobType ==
    <<"U", "n", "k", "n", "o", "w", "n", " ", "j", "o", "b", " ", "t", "y",
      "p", "e">>

descriptions(member) ==
    CASE member = JobTypeV(<<"LITERATURE">>) -> DescLiterature
      [] member = JobTypeV(<<"ANALYSIS">>) -> DescAnalysis
      [] member = JobTypeV(<<"PRECEDENT">>) -> DescPrecedent
      [] member = JobTypeV(<<"MOLECULES">>) -> DescMolecules

\* dict.get hashes its key: a list or a dict has no hash
Hashable(v) == v.t \notin {"dict", "list"}
Unhashable(v) ==
    Exc("TypeError",
        <<"u", "n", "h", "a", "s", "h", "a", "b", "l", "e", " ", "t", "y", "p",
          "e", ":", " ">> \o <<"'">>
        \o (IF v.t = "list" THEN <<"l", "i", "s", "t">> ELSE <<"d", "i", "c", "t">>)
        \o <<"'">>,
        TRUE)

\* Faulty variant: the lookup goes by the member's value, so the string
\* "LITERATURE" finds the description of JobTypes.LITERATURE
get_description_ByValue(job_type) ==
    IF ~Hashable(job_type) THEN Raise(Unhashable(job_type))
    ELSE IF job_type \in JobTypes THEN Ret(StrV(descriptions(job_type)))
    ELSE IF job_type = StrV(<<"L", "I", "T", "E", "R", "A", "T", "U", "R", "E">>)
    THEN Ret(StrV(DescLiterature))
    ELSE Ret(StrV(TxtUnknownJobType))

\* JobTypes.get_description(job_type): descriptions.get(job_type, "Unknown job type")
get_description(job_type) ==
    IF ~Hashable(job_type) THEN Raise(Unhashable(job_type))
    ELSE IF job_type \in JobTypes THEN Ret(StrV(descriptions(job_type)))
    ELSE Ret(StrV(TxtUnknownJobType))

\* str.lower() over the letters of the descriptions
Lower(s) ==
    [i \in 1..Len(s) |->
        CASE s[i] = "A" -> "a"
          [] s[i] = "C" -> "c"
          [] s[i] = "Q" -> "q"
          [] s[i] = "S" -> "s"
          [] s[i] = "U" -> "u"
          [] OTHER -> s[i]]

\* How many get_description calls a caller's record holds
MaxDescribed == 2

\* What callers pass: the members, and values that are none of them (the
\* member's value as a string, the member of JobNames of the same name, None,
\* a number, a list, a dict)
DescribeArgs ==
    JobTypes \cup { StrV(<<"L", "I", "T", "E", "R", "A", "T", "U", "R", "E">>), LITERATURE,
                    NoneV, IntV(<<"5">>), ListV(<<>>), DictV(<<>>) }

\* A caller calls JobTypes.get_description(job_type); no facade is involved
Describe(job_type) ==
    /\ Len(calls) < MaxDescribed
    /\ calls' = Append(calls,
                       [op |-> "get_description", input |-> InId(job_type),
                        pc |-> IF get_description(job_type).kind = "return"
                               THEN "returned" ELSE "raised",
                        sent |-> <<>>, events |-> <<>>, outcome |-> NoOutcome,
                        result |-> get_description(job_type),
                        owned |-> NotOwned])
    /\ UNCHANGED <<env_key, tqdm, facade, ctorCalls, envReads, fanout, handles>>

InitJobTypes ==
    /\ env_key = NoneV
    /\ tqdm = FALSE
    /\ facade = NoFacade
    /\ ctorCalls = <<>>
    /\ envReads = 0
    /\ fanout = 1
    /\ handles = {}
    /\ calls = <<>>

NextJobTypes == \E job_type \in DescribeArgs : Describe(job_type)

\* JobTypes on its own
SpecJobTypes == InitJobTypes /\ [][NextJobTypes]_vars

(***************************************************************************)
(* Properties.                                                             *)
(***************************************************************************)
CallSet == {calls[i] : i \in 1..Len(calls)}
DelegatingOps == {"run_task", "arun_task", "create_task", "acreate_task",
                  "get_task", "aget_task"}
Count(events, k) == Cardinality({i \in 1..Len(events) : events[i].k = k})

\* The collaborator raised an Exception into call c
CollabFailed(c) == c.outcome.kind = "raise" /\ c.outcome.exc.isExc

\* An error record of the logger that carries the text msg
LogsError(c, msg) ==
    \E i \in 1..Len(c.events) :
        /\ c.events[i].k = "logger" /\ c.events[i].lvl = "error"
        /\ \E a \in 1..Len(c.events[i].args) : c.events[i].args[a] = msg
        /\ \E j \in 1..(i - 1) : c.events[j].k = "collab_raise"

\* C1: whenever the collaborator raises a failure into run_task, create_task,
\* get_task or an async variant, the call logs an error with the exception's
\* message after the failure, ends by raising that very exception, and has
\* invoked the collaborator once only (no retry, no substitute return value).
C1_ErrorsLoggedAndReraised ==
    \A c \in CallSet :
        (c.op \in DelegatingOps /\ CollabFailed(c)) =>
            /\ LogsError(c, c.outcome.exc.msg)
            /\ c.pc = "raised"
            /\ c.result = Raise(c.outcome.exc)
            /\ Len(c.sent) = 1
            /\ Count(c.events, "collab_call") = 1

C1_Witness ==
    \E c \in CallSet :
        /\ c.op = "aget_task" /\ CollabFailed(c) /\ c.pc = "raised"
        /\ c.outcome.exc.cls = "RuntimeError"

\* C2: for every request mapping r and both settings of show_progress,
\* run_task(r) invokes run_tasks_until_done exactly once with r itself and
\* returns exactly the value the collaborator returned.
C2_RunTaskDelegatesOnce ==
    \A c \in CallSet :
        c.op = "run_task" =>
            /\ c.sent = <<Payload("run_tasks_until_done", c.input.req, NoneV)>>
            /\ Count(c.events, "collab_call") = 1
            /\ c.outcome.kind = "return" => c.result = Ret(c.outcome.val)

\* C3: constructing with no api_key argument while EDISON_API_KEY is unset
\* fails with the ValueError "API key is required...", and no construction
\* that fails has built the collaborator client.
C3_NoKeyFailsBeforeClient ==
    /\ (facade.state # "unbuilt" /\ facade.arg = NoneV /\ env_key = NoneV) =>
          /\ facade.state = "failed"
          /\ facade.error.cls = "ValueError"
          /\ SubSeq(facade.error.msg, 1, 20) =
                <<"A", "P", "I", " ", "k", "e", "y", " ", "i", "s", " ",
                  "r", "e", "q", "u", "i", "r", "e", "d", ".">>
    /\ facade.state = "failed" => (ctorCalls = <<>> /\ facade.client = 0)

C3_Witness ==
    facade.state = "failed" /\ facade.arg = NoneV /\ env_key = NoneV

\* C4 as stated: a supplied api_key argument becomes the facade's api_key, the
\* collaborator is constructed once with it and the environment is not read;
\* with no argument and EDISON_API_KEY set, the environment value is used.
C4_Original ==
    facade.state # "unbuilt" =>
        /\ facade.arg # NoneV =>
              /\ facade.state = "ready"
              /\ facade.api_key = facade.arg
              /\ ctorCalls = <<facade.arg>>
              /\ envReads = 0
        /\ (facade.arg = NoneV /\ env_key # NoneV) =>
              /\ facade.state = "ready"
              /\ facade.api_key = env_key
              /\ ctorCalls = <<env_key>>

\* C4 (amended): a non-empty api_key argument becomes the facade's api_key, the
\* collaborator is constructed once with it and the environment is not read;
\* with the argument absent or empty and EDISON_API_KEY set to a non-empty
\* value, the environment value is used and the collaborator is constructed
\* once with it.
C4_KeyResolution ==
    facade.state # "unbuilt" =>
        /\ (facade.arg.t = "str" /\ facade.arg.s # <<>>) =>
              /\ facade.state = "ready"
              /\ facade.api_key = facade.arg
              /\ ctorCalls = <<facade.arg>>
              /\ envReads = 0
        /\ (~(facade.arg.t = "str" /\ facade.arg.s # <<>>)
            /\ env_key.t = "str" /\ env_key.s # <<>>) =>
              /\ facade.state = "ready"
              /\ facade.api_key = env_key
              /\ ctorCalls = <<env_key>>

C4_Witness ==
    /\ facade.state = "ready" /\ facade.arg = StrV(<<>>)
    /\ facade.api_key = StrV(<<"e">>) /\ ctorCalls = <<StrV(<<"e">>)>>

\* What a call of a search method must have handed to the collaborator
SearchSent(c, name) ==
    c.sent = <<Payload("run_tasks_until_done",
                       [f \in {"name", "query"} |->
                            IF f = "name" THEN name ELSE c.input.q],
                       NoneV)>>

\* The call ends by returning exactly when the collaborator returned, and
\* then with the collaborator's value
ReturnsCollabValue(c) ==
    /\ c.outcome.kind = "return" => (c.pc = "returned" /\ c.result = Ret(c.outcome.val))
    /\ c.pc = "returned" => c.outcome.kind = "return"

\* C5: literature_search(q) hands the collaborator the request
\* {name: LITERATURE, query: q}, q untrimmed and no other field, and returns
\* the collaborator's result unmodified.
C5_LiteratureSearch ==
    \A c \in CallSet :
        c.op = "literature_search" =>
            SearchSent(c, LITERATURE) /\ ReturnsCollabValue(c)

C5_Witness ==
    \E c \in CallSet :
        /\ c.op = "literature_search" /\ c.pc = "returned"
        /\ c.input.q = StrV(<<" ", "q", " ">>)

\* C6: precedent_search(q) hands the collaborator the request
\* {name: PRECEDENT, query: q}, q untrimmed and no other field, and returns
\* the collaborator's result unmodified.
C6_PrecedentSearch ==
    \A c \in CallSet :
        c.op = "precedent_search" =>
            SearchSent(c, PRECEDENT) /\ ReturnsCollabValue(c)

C6_Witness ==
    \E c \in CallSet :
        /\ c.op = "precedent_search" /\ c.pc = "returned"
        /\ c.input.q = StrV(LongText)

\* The keyword arguments that are neither query nor task_overrides
OtherParams(c) ==
    SelectSeq(c.input.kwargs, LAMBDA e : e.key \notin {TxtQuery, TxtTaskOverrides})

\* "\n- key: value" for each parameter in turn
RECURSIVE ParamText(_)
ParamText(params) ==
    IF params = <<>> THEN <<>>
    ELSE NL \o <<"-", " ">> \o Head(params).key \o <<":", " ">>
         \o ValueStr(Head(params).val) \o ParamText(Tail(params))

\* The newline-joined text: the dataset line when `given`, then the
\* parameter block when there are parameters
JoinedText(given, dataset, params) ==
    LET first == IF given THEN TxtDataset \o PyStr(dataset) ELSE <<>>
        rest == IF params = <<>> THEN <<>> ELSE TxtParameters \o ParamText(params)
    IN  IF first # <<>> /\ rest # <<>> THEN first \o NL \o rest ELSE first \o rest

\* The request a call has handed to the collaborator
SentReq(c) == c.sent[1].req

\* C7 as stated: without a query keyword the request has name ANALYSIS and a
\* query that is exactly the newline-joined text, with the dataset line iff a
\* dataset is given.
C7_Original ==
    \A c \in CallSet :
        (c.op = "analyze_data" /\ ~HasKey(c.input.kwargs, TxtQuery) /\ c.sent # <<>>) =>
            /\ SentReq(c)["name"] = ANALYSIS
            /\ SentReq(c)["query"] =
                  StrV(JoinedText(c.input.dataset # NoneV, c.input.dataset, OtherParams(c)))

\* C7 (amended): without a non-empty query keyword, analyze_data builds the
\* query as the newline-joined text (the line "Dataset: <dataset>" iff the
\* dataset is non-empty, "Parameters:" iff a parameter other than query and
\* task_overrides remains, one "- key: value" line per such parameter in the
\* caller's order) with leading and trailing whitespace stripped; when that is
\* empty the call raises and sends nothing, otherwise the request sent has
\* this query and name ANALYSIS unless task_overrides replaces the field.
\* analyze_data(dataset="D", k="v") sends "Dataset: D\nParameters:\n- k: v".
C7_SynthesizedQuery ==
    \A c \in CallSet :
        (c.op = "analyze_data" /\ ~Truthy(PopValue(c.input.kwargs, TxtQuery))) =>
            LET text == Strip(JoinedText(Truthy(c.input.dataset), c.input.dataset,
                                         OtherParams(c)))
                ov == TaskOverrides(c.input.kwargs)
            IN  /\ text = <<>> => (c.sent = <<>> /\ c.result.exc.cls = "ValueError")
                /\ (text # <<>> /\ "query" \notin DOMAIN ov) =>
                      (Len(c.sent) = 1 /\ SentReq(c)["query"] = StrV(text))
                /\ (c.sent # <<>> /\ "name" \notin DOMAIN ov) =>
                      SentReq(c)["name"] = ANALYSIS
                /\ (c.input.dataset = StrV(<<"D">>) /\ c.input.kwargs = <<KV>>) =>
                      /\ SentReq(c)["query"].s =
                            <<"D", "a", "t", "a", "s", "e", "t", ":", " ", "D", "\n",
                              "P", "a", "r", "a", "m", "e", "t", "e", "r", "s", ":", "\n",
                              "-", " ", "k", ":", " ", "v">>
                      /\ Find(SentReq(c)["query"].s, TxtDataset \o <<"D">>) > 0
                      /\ Find(SentReq(c)["query"].s, TxtDataset \o <<"D">>)
                            < Find(SentReq(c)["query"].s, <<"-", " ", "k", ":", " ", "v">>)

C7_Witness ==
    \E c \in CallSet :
        /\ c.op = "analyze_data" /\ c.pc = "returned"
        /\ c.input.dataset = StrV(<<"D", " ">>)
        /\ c.input.kwargs = <<Kw(<<"k">>, StrV(<<"v", "\n">>))>>
        /\ SentReq(c)["query"].s =
              <<"D", "a", "t", "a", "s", "e", "t", ":", " ", "D", " ", "\n",
                "P", "a", "r", "a", "m", "e", "t", "e", "r", "s", ":", "\n",
                "-", " ", "k", ":", " ", "v">>

\* C8 as stated: whenever a query keyword (a string) is passed, the query sent
\* equals it verbatim, whatever the dataset and the other keyword arguments.
C8_Original ==
    \A c \in CallSet :
        (c.op = "analyze_data" /\ HasKey(c.input.kwargs, TxtQuery)
         /\ PopValue(c.input.kwargs, TxtQuery).t = "str" /\ c.sent # <<>>) =>
            SentReq(c)["query"] = PopValue(c.input.kwargs, TxtQuery)

\* C8 (amended): whenever a non-empty query keyword is passed, the request is
\* sent and its query equals that string verbatim (untrimmed), whatever the
\* dataset and the prompt parameters, unless task_overrides carries a query
\* field of its own: a request that is sent then carries the override's query;
\* an empty query keyword counts as absent (the query is synthesized from the
\* dataset and the parameters).
C8_CustomQueryVerbatim ==
    \A c \in CallSet :
        (c.op = "analyze_data" /\ HasKey(c.input.kwargs, TxtQuery)
         /\ PopValue(c.input.kwargs, TxtQuery).t = "str") =>
            LET custom == PopValue(c.input.kwargs, TxtQuery)
                ov == TaskOverrides(c.input.kwargs)
            IN  /\ (custom.s # <<>> /\ "query" \notin DOMAIN ov) =>
                      (Len(c.sent) = 1 /\ SentReq(c)["query"] = custom)
                /\ (custom.s # <<>> /\ "query" \in DOMAIN ov /\ c.sent # <<>>) =>
                      SentReq(c)["query"] = ov["query"]
                /\ (custom.s = <<>> /\ "query" \notin DOMAIN ov /\ c.sent # <<>>) =>
                      SentReq(c)["query"] =
                          StrV(Strip(JoinedText(Truthy(c.input.dataset), c.input.dataset,
                                                OtherParams(c))))

C8_Witness ==
    \E c \in CallSet :
        /\ c.op = "analyze_data" /\ c.pc = "returned"
        /\ c.input.dataset = StrV(<<"D">>)
        /\ c.input.kwargs = <<KV, KwQuery(<<"c">>)>>
        /\ SentReq(c)["query"] = StrV(<<"c">>)

\* The name and the query a convenience call sets before the merge
DefaultName(c) == IF c.op = "analyze_data" THEN ANALYSIS ELSE MOLECULES
DefaultQuery(c) ==
    IF c.op = "analyze_data"
    THEN AnalyzeQuery(c.input.dataset, PopValue(c.input.kwargs, TxtQuery),
                      PromptParams(c.input.kwargs))
    ELSE StrV(ChemistryPrompt(c.input.q, PopRest(c.input.kwargs, TxtTaskOverrides)))

\* The task_overrides a caller passed: its fields, none for None or absent
GivenOverrides(c) ==
    IF \E i \in 1..Len(c.input.kwargs) :
            c.input.kwargs[i].key = TxtTaskOverrides /\ c.input.kwargs[i].val.t = "dict"
    THEN c.input.kwargs[CHOOSE i \in 1..Len(c.input.kwargs) :
                            c.input.kwargs[i].key = TxtTaskOverrides].ov
    ELSE EmptyReq

C10_EmptyAnalysisRefused ==
    \A c \in CallSet :
        (c.op = "analyze_data" /\ c.input.dataset = NoneV
         /\ \A i \in 1..Len(c.input.kwargs) : c.input.kwargs[i].key = TxtTaskOverrides) =>
            /\ c.pc = "raised"
            /\ c.result.kind = "raise"
            /\ c.result.exc.cls = "ValueError"
            /\ c.sent = <<>>
            /\ Count(c.events, "collab_call") = 0

C10_Witness ==
    \E c \in CallSet :
        /\ c.op = "analyze_data" /\ c.input.dataset = NoneV /\ c.input.kwargs = <<>>
        /\ c.pc = "raised" /\ c.result.exc = AnalysisNeedsQuery

\* The keyword arguments of chemistry_task other than task_overrides
ExtraParams(c) == SelectSeq(c.input.kwargs, LAMBDA e : e.key # TxtTaskOverrides)

\* The trimmed q alone, or the trimmed q, a blank line, "Parameters:" and one
\* "- key: value" line per extra parameter
ChemistryText(q, params) ==
    Strip(q.s) \o (IF params = <<>> THEN <<>>
                   ELSE NL \o NL \o TxtParameters \o ParamText(params))

FieldName(key) ==
    CASE key = <<"k">> -> "k"
      [] key = <<"a">> -> "a"
      [] key = TxtTarget -> "target"

\* C12: chemistry_task(q, **params) submits a request with name MOLECULES
\* whose query equals q exactly and in which every extra keyword parameter is
\* a top-level field carrying the supplied value, and returns the
\* collaborator's result unmodified (what test_chemistry_task_convenience_method
\* asserts).
C12_AsTestAsserts ==
    \A c \in CallSet :
        (c.op = "chemistry_task" /\ TaskOverrides(c.input.kwargs) = EmptyReq) =>
            /\ Len(c.sent) = 1
            /\ SentReq(c)["name"] = MOLECULES
            /\ SentReq(c)["query"] = c.input.q
            /\ \A i \in 1..Len(ExtraParams(c)) :
                  /\ FieldName(ExtraParams(c)[i].key) \in DOMAIN SentReq(c)
                  /\ SentReq(c)[FieldName(ExtraParams(c)[i].key)] = ExtraParams(c)[i].val
            /\ ReturnsCollabValue(c)

ConvenienceOps == {"literature_search", "precedent_search", "analyze_data",
                   "chemistry_task"}

\* C13: every request a convenience method delivers to the collaborator, for
\* every combination of arguments including task_overrides, has a name that is
\* one of LITERATURE, ANALYSIS, PRECEDENT, MOLECULES.
C13_KnownJobKind ==
    \A c \in CallSet :
        (c.op \in ConvenienceOps /\ c.sent # <<>>) =>
            /\ "name" \in DOMAIN SentReq(c)
            /\ SentReq(c)["name"] \in {LITERATURE, ANALYSIS, PRECEDENT, MOLECULES}

\* C14: every request a convenience method delivers to the collaborator, for
\* every combination of arguments including task_overrides, has a non-empty
\* query.
C14_QueryNonEmpty ==
    \A c \in CallSet :
        (c.op \in ConvenienceOps /\ c.sent # <<>>) =>
            /\ "query" \in DOMAIN SentReq(c)
            /\ SentReq(c)["query"].t = "str"
            /\ SentReq(c)["query"].s # <<>>

\* The collaborator operations call c has invoked, in order
Invoked(c) ==
    LET marks == SelectSeq(c.events, LAMBDA e : e.k = "collab_call")
    IN  [i \in 1..Len(marks) |-> marks[i].tmpl]

\* C15: create_task(r) invokes the collaborator's create_task once with r and
\* no other collaborator operation (neither submit-and-wait nor fetch), and
\* returns the identifier the collaborator produced.
C15_CreateOnly ==
    \A c \in CallSet :
        c.op = "create_task" =>
            /\ Invoked(c) = <<"create_task">>
            /\ c.sent = <<Payload("create_task", c.input.req, NoneV)>>
            /\ ReturnsCollabValue(c)

C15_Witness ==
    \E c \in CallSet :
        /\ c.op = "create_task" /\ c.pc = "returned"
        /\ c.input.req = TaskData(ANALYSIS, IntV(<<"5">>))
        /\ c.result = Ret(StrV(<<"t", "1">>))

\* C16: get_task(h) / aget_task(h) hands exactly h to the collaborator's
\* operation of the same name, once, and returns its result unmodified, for a
\* handle create_task / acreate_task returned and for any other alike (no
\* validation); a handle is what the collaborator's create returned,
\* unmodified, and the facade keeps none.
C16_RoundTrip ==
    /\ \A c \in CallSet :
          c.op \in ByIdOps =>
              /\ Invoked(c) = <<c.op>>
              /\ c.sent = <<Payload(c.op, EmptyReq, c.input.id)>>
              /\ ReturnsCollabValue(c)
    /\ \A c \in CallSet :
          (c.op \in {"create_task", "acreate_task"} /\ c.pc = "returned") =>
              (Created(c) = {c.outcome.val} /\ c.outcome.val \in handles)
    /\ facade = Built(StrV(<<"k">>), StrV(<<"k">>), 1, facade.verbose, facade.show_progress)

C16_Witness ==
    \E c \in CallSet :
        /\ c.op = "get_task" /\ c.pc = "returned"
        /\ c.input.id = StrV(<<"t", "2">>)
        /\ handles = {StrV(<<"t", "2">>)}
        /\ c.sent[1].id = StrV(<<"t", "2">>)

\* The synchronous method an asynchronous one corresponds to
SyncOf(op) ==
    CASE op = "arun_task" -> "run_task"
      [] op = "acreate_task" -> "create_task"
      [] op = "aget_task" -> "get_task"

\* What the synchronous method does with the input of call c up to the
\* collaborator, and what it yields when the collaborator ends with o
SyncEntered(c) ==
    IF c.op = "arun_task" THEN RunTaskEnter(c.input.req)
    ELSE DelegateEnter(SyncOf(c.op), c.input.req, c.input.id)

SyncYields(c, o) ==
    CASE SyncEntered(c).sent = <<>> -> Raise(SyncEntered(c).exc)
      [] SyncEntered(c).sent # <<>> /\ c.op = "arun_task" ->
            RunTaskLeave(c.input.req, o).result
      [] OTHER -> DelegateLeave(SyncOf(c.op), c.input.id, o).result

\* The arguments handed to the collaborator, whatever the operation's name
Arguments(sent) == [i \in 1..Len(sent) |-> <<sent[i].req, sent[i].id>>]

\* C17: for every input and every collaborator behaviour (a returned value or
\* a raised failure), arun_task, acreate_task and aget_task hand the
\* collaborator the same argument, once, and yield the same value or
\* exception as run_task, create_task and get_task do.
C17_SyncAsyncEquivalent ==
    \A c \in CallSet :
        c.op \in AsyncOps =>
            /\ Arguments(c.sent) = Arguments(SyncEntered(c).sent)
            /\ (c.outcome.kind = "return" \/ CollabFailed(c)) =>
                  c.result = SyncYields(c, c.outcome)

\* What the arguments of call c alone determine.  The request its method
\* builds, whatever the flags of the facade:
RequestOf(c) ==
    CASE c.op \in {"literature_search", "precedent_search"} ->
            TaskData(IF c.op = "literature_search" THEN LITERATURE ELSE PRECEDENT,
                     c.input.q)
      [] c.op = "analyze_data" ->
            Update(TaskData(ANALYSIS,
                            IF Truthy(PopValue(c.input.kwargs, TxtQuery))
                            THEN PopValue(c.input.kwargs, TxtQuery)
                            ELSE StrV(Strip(JoinedText(Truthy(c.input.dataset),
                                                       c.input.dataset, OtherParams(c))))),
                   GivenOverrides(c))
      [] c.op = "chemistry_task" ->
            Update(TaskData(MOLECULES, StrV(ChemistryText(c.input.q, ExtraParams(c)))),
                   GivenOverrides(c))
      [] OTHER -> c.input.req

\* The exception the method raises before it reaches the collaborator, if any
RefusalOf(c) ==
    LET query == IF "query" \in DOMAIN RequestOf(c) THEN RequestOf(c)["query"]
                 ELSE StrV(TxtNA)
    IN  CASE c.op = "analyze_data"
              /\ ~Truthy(PopValue(c.input.kwargs, TxtQuery))
              /\ Strip(JoinedText(Truthy(c.input.dataset), c.input.dataset,
                                  OtherParams(c))) = <<>> -> AnalysisNeedsQuery
          [] c.op \in ConvenienceOps \cup {"run_task"} /\ query.t # "str" ->
                NotSubscriptable(query)
          [] OTHER -> NoExc

\* What the method hands to the collaborator
SentOf(c) ==
    IF RefusalOf(c) # NoExc THEN <<>>
    ELSE IF c.op \in ByIdOps THEN <<Payload(c.op, EmptyReq, c.input.id)>>
    ELSE <<Payload(CASE c.op = "arun_task" -> "arun_tasks_until_done"
                     [] c.op \in {"create_task", "acreate_task"} -> c.op
                     [] OTHER -> "run_tasks_until_done",
                   RequestOf(c), NoneV)>>

\* C18: what a call delivers to the collaborator, how often it invokes it and
\* what it returns or raises are determined by the operation, its input and
\* the collaborator's behaviour alone: RequestOf, RefusalOf and SentOf read
\* neither verbose nor show_progress (nor whether tqdm is installed), so
\* facades that differ only in these flags behave alike.
C18_FlagsOnlyAffectOutput ==
    \A c \in CallSet :
        /\ c.sent = SentOf(c)
        /\ Len(Invoked(c)) = Len(SentOf(c))
        /\ SentOf(c) = <<>> => (c.pc = "raised" /\ c.result = Raise(RefusalOf(c)))
        /\ (SentOf(c) # <<>> /\ c.outcome.kind = "return") =>
              (c.pc = "returned" /\ c.result = Ret(c.outcome.val))
        /\ (SentOf(c) # <<>> /\ c.outcome.kind = "raise") =>
              (c.pc = "raised" /\ c.result = Raise(c.outcome.exc))
        /\ (SentOf(c) # <<>> /\ c.outcome.kind = "none") => c.pc = "in_collab"

C18_Witness ==
    /\ ~facade.verbose /\ facade.show_progress /\ tqdm
    /\ \E c \in CallSet :
          /\ c.op = "run_task" /\ c.pc = "returned"
          /\ c.input.req = TaskData(PRECEDENT, StrV(LongText))
          /\ \E i \in 1..Len(c.events) : c.events[i].k = "tqdm"
          /\ \A i \in 1..Len(c.events) : c.events[i].k # "status"

\* Call c has ended with the outcome the collaborator gave its own operation
OwnOutcome(c) ==
    /\ c.outcome.kind # "none"
    /\ c.result = c.outcome
    /\ Arguments(c.sent) = <<IF c.op \in ByIdOps THEN <<EmptyReq, c.input.id>>
                             ELSE <<c.input.req, NoneV>>>>

\* C19: with several arun_task / acreate_task / aget_task calls in flight on
\* one facade, under every interleaving and completion order, each call that
\* ends has handed over its own argument and returns or raises the
\* collaborator's outcome for its own operation, and a step in which one call
\* ends (by returning or by failing) changes no other call.
C19_AsyncIsolation ==
    /\ [](\A c \in CallSet : (c.op \in AsyncOps /\ c.pc # "in_collab") => OwnOutcome(c))
    /\ [][Len(calls') = Len(calls) =>
            \A i, j \in 1..Len(calls) :
                (i # j /\ calls'[i] # calls[i]) => calls'[j] = calls[j]]_vars

C19_Witness ==
    /\ Len(calls) = 2
    /\ calls[1].op = "arun_task" /\ calls[2].op = "arun_task"
    /\ calls[1].input.req # calls[2].input.req
    /\ calls[2].pc = "raised" /\ calls[2].outcome.exc.cls = "RuntimeError"
    /\ calls[1].pc = "returned" /\ calls[1].result = Ret(StrV(<<"t", "2">>))

\* C20: after construction no step (a call entering, its collaborator
\* operation returning, failing or being cancelled, alone or interleaved with
\* others) changes the facade's api_key, collaborator handle or flags or
\* builds another collaborator, and a call that enters is determined by its
\* own arguments: nothing of an earlier call shows in it.
C20_NoMutableState ==
    /\ [][/\ facade' = facade
          /\ ctorCalls' = ctorCalls
          /\ envReads' = envReads]_vars
    /\ [][Len(calls') = Len(calls) + 1 =>
            LET new == calls'[Len(calls')]
            IN  /\ new.sent = SentOf(new)
                /\ new.outcome = NoOutcome
                /\ SentOf(new) = <<>> => new.result = Raise(RefusalOf(new))
                /\ SentOf(new) # <<>> => new.result = NoOutcome]_vars

C20_Witness ==
    /\ Len(calls) = 2
    /\ calls[1].op = "acreate_task" /\ calls[1].pc = "returned"
    /\ calls[2].op = "get_task" /\ calls[2].pc = "raised"
    /\ handles # {}
    /\ facade = Built(StrV(<<"k">>), StrV(<<"k">>), 1, TRUE, FALSE)
    /\ ctorCalls = <<StrV(<<"k">>)>>

\* C21: when an arun_task, acreate_task or aget_task call is cancelled while
\* suspended on the collaborator's operation, the call ends by raising the
\* cancellation (not caught: no error is logged; not turned into a return) and
\* has invoked the collaborator once only.
C21_CancellationPropagates ==
    \A c \in CallSet :
        (c.op \in AsyncOps /\ c.outcome = Raise(Cancelled)) =>
            /\ c.pc = "raised"
            /\ c.result = Raise(Cancelled)
            /\ Len(Invoked(c)) = 1
            /\ Len(c.sent) = 1
            /\ \A i \in 1..Len(c.events) :
                  ~(c.events[i].k = "logger" /\ c.events[i].lvl = "error")
            /\ c.events[Len(c.events)].k = "collab_raise"

C21_Witness ==
    /\ Len(calls) = 2
    /\ calls[1].op = "arun_task" /\ calls[1].result = Raise(Cancelled)
    /\ calls[2].op = "aget_task" /\ calls[2].pc = "in_collab"

\* C22 as stated: get_description returns each of the four members' own
\* description (that of LITERATURE mentions literature, that of ANALYSIS
\* datasets or analysis) and returns "Unknown job type" for every argument
\* that is not one of the four members.
C22_Original ==
    \A c \in CallSet :
        c.op = "get_description" =>
            LET arg == c.input.id IN
            /\ arg = JobTypeV(<<"LITERATURE">>) =>
                  /\ c.result = Ret(StrV(DescLiterature))
                  /\ Contains(Lower(c.result.val.s), <<"l", "i", "t", "e", "r", "a", "t", "u", "r", "e">>)
            /\ arg = JobTypeV(<<"ANALYSIS">>) =>
                  /\ c.result = Ret(StrV(DescAnalysis))
                  /\ \/ Contains(Lower(c.result.val.s), <<"d", "a", "t", "a", "s", "e", "t">>)
                     \/ Contains(Lower(c.result.val.s), <<"a", "n", "a", "l", "y", "s", "i", "s">>)
            /\ arg = JobTypeV(<<"PRECEDENT">>) => c.result = Ret(StrV(DescPrecedent))
            /\ arg = JobTypeV(<<"MOLECULES">>) => c.result = Ret(StrV(DescMolecules))
            /\ arg \notin JobTypes => c.result = Ret(StrV(TxtUnknownJobType))

\* C22 (amended): get_description returns each of the four members' own
\* description (that of LITERATURE mentions literature, that of ANALYSIS
\* datasets or analysis) and returns "Unknown job type" for every hashable
\* argument that is not one of the four members, a member's value as a string
\* and the JobNames member of the same name included; for an unhashable
\* argument (a list, a dict) it raises TypeError.
C22_Descriptions ==
    \A c \in CallSet :
        c.op = "get_description" =>
            LET arg == c.input.id IN
            /\ arg = JobTypeV(<<"LITERATURE">>) =>
                  /\ c.result = Ret(StrV(DescLiterature))
                  /\ Contains(Lower(c.result.val.s), <<"l", "i", "t", "e", "r", "a", "t", "u", "r", "e">>)
            /\ arg = JobTypeV(<<"ANALYSIS">>) =>
                  /\ c.result = Ret(StrV(DescAnalysis))
                  /\ \/ Contains(Lower(c.result.val.s), <<"d", "a", "t", "a", "s", "e", "t">>)
                     \/ Contains(Lower(c.result.val.s), <<"a", "n", "a", "l", "y", "s", "i", "s">>)
            /\ arg = JobTypeV(<<"PRECEDENT">>) => c.result = Ret(StrV(DescPrecedent))
            /\ arg = JobTypeV(<<"MOLECULES">>) => c.result = Ret(StrV(DescMolecules))
            /\ (arg \notin JobTypes /\ Hashable(arg)) =>
                  c.result = Ret(StrV(TxtUnknownJobType))
            /\ ~Hashable(arg) =>
                  (c.pc = "raised" /\ c.result.kind = "raise"
                   /\ c.result.exc.cls = "TypeError")

C22_Witness ==
    \E c \in CallSet :
        /\ c.op = "get_description" /\ c.pc = "returned"
        /\ c.input.id = StrV(<<"L", "I", "T", "E", "R", "A", "T", "U", "R", "E">>)
        /\ c.result = Ret(StrV(TxtUnknownJobType))

\* Where in the events of call c a status of this kind, the "Starting" status
\* and a mark of the collaborator stand
StatusAt(c, status) ==
    {i \in 1..Len(c.events) : c.events[i].k = "status" /\ c.events[i].lvl = status}
StartingAt(c) ==
    {i \in 1..Len(c.events) :
        c.events[i].k = "status" /\ c.events[i].tmpl = "Starting {job_name} task..."}
MarkAt(c, k) == {i \in 1..Len(c.events) : c.events[i].k = k}

\* The calls that run through run_task
ThroughRunTask(c) ==
    /\ c.op \in ConvenienceOps \cup {"run_task"}
    /\ c.result # Raise(AnalysisNeedsQuery)

\* C23: within a run_task call the "Starting" status precedes the
\* collaborator's invocation; the success status comes only after the
\* collaborator has returned and in a call that returns; the error status
\* comes only after the collaborator has raised and in a call that raises; no
\* call has both; a verbose facade prints each of them when its case occurs.
\* Every setting of show_progress is covered.
C23_EventOrder ==
    \A c \in CallSet :
        ThroughRunTask(c) =>
            /\ \A s \in StartingAt(c), i \in MarkAt(c, "collab_call") : s < i
            /\ facade.verbose => Cardinality(StartingAt(c)) = 1
            /\ \A i \in StatusAt(c, "success") :
                  /\ \E j \in MarkAt(c, "collab_ret") : j < i
                  /\ c.pc = "returned"
            /\ (facade.verbose /\ c.pc = "returned") => StatusAt(c, "success") # {}
            /\ \A i \in StatusAt(c, "error") :
                  /\ \E j \in MarkAt(c, "collab_raise") : j < i
                  /\ c.pc = "raised"
            /\ (facade.verbose /\ CollabFailed(c)) => StatusAt(c, "error") # {}
            /\ StatusAt(c, "success") = {} \/ StatusAt(c, "error") = {}

C23_Witness ==
    /\ facade.verbose /\ facade.show_progress /\ tqdm
    /\ \E c \in CallSet :
          /\ c.op = "run_task" /\ CollabFailed(c)
          /\ StartingAt(c) # {} /\ StatusAt(c, "error") # {}
          /\ MarkAt(c, "tqdm") # {}

\* C24 as stated: every call makes exactly one collaborator invocation and
\* then returns or raises, never before the collaborator operation has ended.
C24_Original ==
    \A c \in CallSet :
        /\ c.pc # "in_collab" => (Len(Invoked(c)) = 1 /\ c.outcome.kind # "none")
        /\ c.pc = "in_collab" => Len(Invoked(c)) = 1

\* C24 (amended): every call makes at most one collaborator invocation: none
\* when it raises before delegating (the input error of analyze_data, the
\* TypeError of run_task on a non-text query), exactly one otherwise; a call
\* that has invoked the collaborator completes only once that operation has
\* returned or raised, and whenever the operation terminates the call
\* terminates too (no polling, waiting or repeated invocation of its own).
C24_Terminates ==
    /\ [](\A c \in CallSet :
            /\ Len(Invoked(c)) = Len(c.sent)
            /\ Len(c.sent) = IF RefusalOf(c) = NoExc THEN 1 ELSE 0
            /\ Len(c.sent) = 0 => (c.pc = "raised" /\ c.outcome.kind = "none")
            /\ (Len(c.sent) = 1 /\ c.pc # "in_collab") =>
                  /\ c.outcome.kind # "none"
                  /\ \E i \in MarkAt(c, "collab_call") :
                        \E j \in MarkAt(c, "collab_ret") \cup MarkAt(c, "collab_raise") :
                            i < j
            /\ Cardinality(MarkAt(c, "collab_ret") \cup MarkAt(c, "collab_raise")) <= 1)
    /\ (InFlight(calls) # <<>>) ~> (InFlight(calls) = <<>>)

C24_Witness ==
    \E c \in CallSet :
        /\ c.op = "chemistry_task" /\ c.pc = "returned"
        /\ Len(Invoked(c)) = 1 /\ c.outcome = Ret(StrV(<<"t", "1">>))

\* The same keyword arguments with the entries of every dict inserted in the
\* opposite order
Reversed(s) == [i \in 1..Len(s) |-> s[Len(s) + 1 - i]]
TwinKwargs(kwargs) ==
    [i \in 1..Len(kwargs) |->
        IF kwargs[i].val.t = "dict" /\ kwargs[i].key # TxtTaskOverrides
        THEN [kwargs[i] EXCEPT !.val = DictV(Reversed(@.items))]
        ELSE kwargs[i]]

\* The calls whose query is built from the parameters and sent as built
SendsBuiltQuery(c) ==
    /\ c.op \in {"analyze_data", "chemistry_task"}
    /\ c.sent # <<>>
    /\ "query" \notin DOMAIN GivenOverrides(c)
    /\ ~Truthy(PopValue(c.input.kwargs, TxtQuery))

\* C25: analyze_data and chemistry_task render a dict or list parameter as
\* indented JSON with keys sorted, so the query sent is the one the same call
\* builds with every dict's entries inserted in the opposite order; any other
\* value is rendered by str(); and chemistry_task's parameter block is, up to
\* the final strip of analyze_data, the query analyze_data builds from the
\* same parameters alone.
C25_KeyOrderIndependent ==
    \A c \in CallSet :
        SendsBuiltQuery(c) =>
            LET q == SentReq(c)["query"].s
                kw == c.input.kwargs
                dictAB == DictV(<< << <<"a">>, <<"y">> >>, << <<"b">>, <<"x">> >> >>)
                dictBA == DictV(<< << <<"b">>, <<"x">> >>, << <<"a">>, <<"y">> >> >>)
            IN  /\ SentReq(c)["query"] =
                      DefaultQuery([c EXCEPT !.input.kwargs = TwinKwargs(@)])
                /\ kw \in {<<Kw(<<"k">>, dictAB)>>, <<Kw(<<"k">>, dictBA)>>} =>
                      Contains(q, <<"\n", "-", " ", "k", ":", " ">> \o
                                  <<"{", "\n", " ", " ", "\"", "a", "\"", ":", " ", "\"", "y", "\"", ",", "\n", " ", " ", "\"", "b", "\"", ":", " ", "\"", "x", "\"", "\n", "}">>)
                /\ kw = <<Kw(<<"k">>, ListV(<< << <<>>, <<"b">> >>, << <<>>, <<"a">> >> >>))>> =>
                      Contains(q, <<"\n", "-", " ", "k", ":", " ">> \o
                                  <<"[", "\n", " ", " ", "\"", "b", "\"", ",", "\n", " ", " ", "\"", "a", "\"", "\n", "]">>)
                /\ kw = <<Kw(<<"k">>, NoneV)>> =>
                      Contains(q, <<"\n", "-", " ", "k", ":", " ", "N", "o", "n", "e">>)
                /\ kw = <<KV, KA>> =>
                      Contains(q, <<"\n", "-", " ", "k", ":", " ", "v", "\n",
                                    "-", " ", "a", ":", " ", "5">>)
                /\ (c.op = "chemistry_task" /\ ExtraParams(c) # <<>>) =>
                      \E block \in {SubSeq(q, i, Len(q)) : i \in 1..Len(q)} :
                          /\ q = Strip(c.input.q.s) \o NL \o NL \o block
                          /\ Strip(block) =
                                AnalyzeQuery(NoneV, NoneV, ExtraParams(c)).s

C25_Witness ==
    \E c \in CallSet :
        /\ c.op = "analyze_data" /\ c.pc = "returned" /\ c.input.dataset = NoneV
        /\ c.input.kwargs =
              <<Kw(<<"k">>, DictV(<< << <<"b">>, <<"x">> >>, << <<"a">>, <<"y">> >> >>))>>
        /\ SentReq(c)["query"].s =
              <<"P", "a", "r", "a", "m", "e", "t", "e", "r", "s", ":", "\n",
                "-", " ", "k", ":", " ">> \o
              <<"{", "\n", " ", " ", "\"", "a", "\"", ":", " ", "\"", "y", "\"", ",", "\n", " ", " ", "\"", "b", "\"", ":", " ", "\"", "x", "\"", "\n", "}">>

\* C26: analyze_data tests the query before task_overrides are merged and
\* not again afterwards: a call whose only argument is task_overrides, even
\* one with a non-empty query field, raises the input error and sends
\* nothing; a call whose own query is non-empty and whose task_overrides sets
\* query to the empty string is sent, with the empty query, without error of
\* the facade.
C26_CheckBeforeMerge ==
    \A c \in CallSet :
        c.op = "analyze_data" =>
            /\ (c.input.dataset = NoneV /\ c.input.kwargs # <<>>
                /\ \A i \in 1..Len(c.input.kwargs) :
                      c.input.kwargs[i].key = TxtTaskOverrides) =>
                  /\ c.pc = "raised" /\ c.result = Raise(AnalysisNeedsQuery)
                  /\ c.sent = <<>> /\ Invoked(c) = <<>>
            /\ (RefusalOf(c) # AnalysisNeedsQuery
                /\ "query" \in DOMAIN GivenOverrides(c)
                /\ GivenOverrides(c)["query"] = StrV(<<>>)) =>
                  /\ Len(c.sent) = 1 /\ SentReq(c)["query"] = StrV(<<>>)
                  /\ Invoked(c) = <<"run_tasks_until_done">>
                  /\ c.pc = "raised" => c.outcome.kind = "raise"

C26_Witness ==
    \E c \in CallSet :
        /\ c.op = "analyze_data" /\ c.pc = "returned"
        /\ c.input.kwargs = <<KV, KwOverrides(Req1("query", StrV(<<>>)))>>
        /\ SentReq(c)["query"] = StrV(<<>>)

C26_WitnessRefused ==
    \E c \in CallSet :
        /\ c.op = "analyze_data" /\ c.input.dataset = NoneV
        /\ c.input.kwargs = <<KwOverrides(Req1("query", StrV(<<"o">>)))>>
        /\ c.result = Raise(AnalysisNeedsQuery)

C28_LoggingNeverBlocks ==
    \A c \in CallSet :
        ThroughRunTask(c) =>
            /\ Count(c.events, "collab_call") = 1
            /\ Len(c.sent) = 1
            /\ c.sent[1].cop = "run_tasks_until_done"
            /\ c.pc = "raised" => (c.outcome.kind = "raise" /\ c.result = c.outcome)

\* The part of C28 the code keeps: a request whose query is absent or a text
\* reaches the collaborator, and only the collaborator's errors come back.
C28_TextOrAbsentQuery ==
    \A c \in CallSet :
        (/\ ThroughRunTask(c)
         /\ ("query" \in DOMAIN RequestOf(c) => RequestOf(c)["query"].t = "str")) =>
            /\ Count(c.events, "collab_call") = 1
            /\ Len(c.sent) = 1
            /\ c.pc = "raised" => (c.outcome.kind = "raise" /\ c.result = c.outcome)

\* The preview of a non-text query stops a quiet facade's run_task, directly
\* and through task_overrides, before the collaborator is reached.
C28_PreviewStopsQuietCall ==
    \E c \in CallSet :
        /\ ~facade.verbose
        /\ c.op \in {"run_task", "analyze_data", "chemistry_task"}
        /\ c.sent = <<>>
        /\ c.pc = "raised"
        /\ c.result.exc.cls = "TypeError"
=============================================================================
